---- MODULE Spec2Model ----
(***************************************************************************)
(* A model of sc_async_client/session.py: the request/response             *)
(* correlation engine (send_message, _send_message, _on_message), the      *)
(* event dispatch (_emit_callback and the subscription registry) and the   *)
(* connection tasks (establish_connection, close_connection).              *)
(*                                                                         *)
(* The program runs on one asyncio event loop: code between two awaits     *)
(* that suspend runs without interleaving.  Each action below is one such  *)
(* run, or a part of one (a finer grain only adds interleavings).  Tasks   *)
(* made by asyncio.create_task start in the order of their creation.       *)
(***************************************************************************)
EXTENDS Integers, Sequences, FiniteSets, TLC

(* ------------------------------ bounds -------------------------------- *)
\* concurrent callers of send_message, one call each
NumCallers == 2
\* transports (websocket connections) the model may open
MaxConn == 2
\* largest reconnect_retries a caller of set_reconnect_handler passes
MaxRetries == 2
\* event envelopes the server sends
MaxEvents == 2
\* largest subscription identifier
MaxSubId == 2
\* commands one ScConstruction is given
MaxCommands == 2

(* ------------------------- program constants -------------------------- *)
\* constants/numeric.py is not part of the sources: the values stand for it
MAX_PAYLOAD_SIZE == 4
SERVER_RECONNECT_RETRIES == 2
SERVER_RECONNECT_RETRY_DELAY == 1

Callers == 1 .. NumCallers
Conns == 1 .. MaxConn
\* identifiers a response may carry: every one allocated, 0 and one beyond
MsgIds == 0 .. (NumCallers + 1)
SubIds == 1 .. MaxSubId
\* len(data.encode("utf-8")) of the envelopes the callers build
Lens == {MAX_PAYLOAD_SIZE, MAX_PAYLOAD_SIZE + 1}
\* the payload of an event envelope: three raw addresses
Payloads == {<<1, 2, 3>>, <<4, 5, 6>>}
\* the inbound envelopes {id, event, payload} (status plays no part)
Messages == [id : MsgIds, event : BOOLEAN, payload : Payloads]
\* the value None of a response
NoResponse == [id |-> -1, event |-> FALSE, payload |-> <<>>]
Callbacks == {"cbA", "cbB"}

VARIABLES
    \* _ScClientSession
    url, is_open, command_id, connection, error_handler, reconnect_callback,
    post_reconnect_callback, reconnect_retries, reconnect_retry_delay,
    pending_futures,
    event_subscriptions_dict,
    \* the websocket of each connect() task and the task's position
    transport, conn_task,
    \* the establish_connection calls, by the connect() task they made
    est,
    \* history: the errors each connect() task gave to _on_error
    conn_errors,
    \* the close_connection call
    disc,
    \* the send_message calls
    call,
    \* the _emit_callback tasks created and not yet started, oldest first
    emit_tasks,
    \* history: event envelopes received, callback invocations begun,
    \* whether a response found no slot, how the last
    \* drop_event_subscription ended
    arrived, invoked, dropped, drop_result,
    \* the coroutine of each callback invocation begun, in the order of
    \* invoked: running, returned or raised
    callbacks,
    \* how the last is_event_subscription_valid ended
    valid_result,
    \* an ScConstruction and how the last generate_* call on it ended
    constr, constr_result

session == <<url, is_open, command_id, connection, error_handler,
             reconnect_callback, post_reconnect_callback, reconnect_retries,
             reconnect_retry_delay>>
conn_vars == <<transport, conn_task, est, conn_errors, disc>>
event_vars == <<event_subscriptions_dict, emit_tasks, arrived, invoked, callbacks,
                drop_result, valid_result, constr, constr_result>>
vars == <<session, pending_futures, conn_vars, call, event_vars, dropped>>

(* --------------------------- small helpers ---------------------------- *)
IdleCall == [pc |-> "idle", id |-> 0, len |-> 0, retries |-> 0, retry |-> 0,
             fut |-> "none", fut_result |-> NoResponse, out |-> "running",
             result |-> NoResponse, trace |-> <<>>, data |-> 0, wrote |-> {}]

\* no close_connection call made yet
IdleDisc == [pc |-> "idle", conn |-> 0, closes |-> 0, errors |-> 0]

\* an argument of is_event_subscription_valid: an ScEventSubscription
\* with an id, or an object of another type (the integer value)
ValidArgs == [type : {"ScEventSubscription", "int"}, value : 0 .. MaxSubId]
\* no is_event_subscription_valid call made yet
NotAsked == [arg |-> [type |-> "none", value |-> 0], out |-> "none", lookups |-> 0]

\* ScConstruction(): no commands, no aliases
ScConstruction == [commands |-> <<>>, aliases |-> <<>>]

RemoveNothing(f, k) == f
\* dict.pop(key, None) on the key set
Remove(f, k) == [x \in (DOMAIN f) \ {k} |-> f[x]]
\* dict[key] = value
Put(f, k, v) == [x \in (DOMAIN f) \cup {k} |-> IF x = k THEN v ELSE f[x]]

\* the call's events so far, with one more
Log(c, e) == Append(c.trace, e)

\* await _on_error(e): the default handler raises e, a custom one returns
HandlerRaises == error_handler = "default"

\* the call ends by an exception reaching the caller
Raised(c, e) == [c EXCEPT !.pc = "done", !.out = "raised", !.trace = Log(c, e)]

\* the call ends by returning r
Returned(c, r) == [c EXCEPT !.pc = "done", !.out = "returned", !.result = r]

Init ==
    /\ url = "None"
    /\ is_open = FALSE
    /\ command_id = 0
    /\ connection = 0
    /\ error_handler = "default"
    /\ reconnect_callback = "default"
    /\ post_reconnect_callback = "noop"
    /\ reconnect_retries = SERVER_RECONNECT_RETRIES
    /\ reconnect_retry_delay = SERVER_RECONNECT_RETRY_DELAY
    /\ pending_futures = <<>>
    /\ event_subscriptions_dict = <<>>
    /\ transport = [k \in Conns |-> "unused"]
    /\ conn_task = [k \in Conns |-> "unused"]
    /\ est = [k \in Conns |-> [pc |-> "none", owner |-> 0, post |-> 0]]
    /\ conn_errors = [k \in Conns |-> <<>>]
    /\ disc = IdleDisc
    /\ call = [p \in Callers |-> IdleCall]
    /\ emit_tasks = <<>>
    /\ arrived = <<>>
    /\ invoked = <<>>
    /\ callbacks = <<>>
    /\ dropped = FALSE
    /\ drop_result = "none"
    /\ valid_result = NotAsked
    /\ constr = ScConstruction
    /\ constr_result = [op |-> "none", out |-> "none"]

(* ------------------- establish_connection, connect() ------------------ *)
Unused == {k \in Conns : conn_task[k] = "unused"}
\* the connect() task the next establish_connection creates
NextConn == CHOOSE k \in Unused : \A j \in Unused : k <= j

\* establish_connection(u) up to its sleep: the url is kept and the
\* connect() task created, whether or not the session is open; the caller
\* then sleeps the grace period
Established(u, owner) ==
    /\ Unused # {}
    /\ url' = u
    /\ conn_task' = [conn_task EXCEPT ![NextConn] = "connecting"]
    /\ transport' = [transport EXCEPT ![NextConn] = "connecting"]
    /\ est' = [est EXCEPT ![NextConn] = [pc |-> "grace", owner |-> owner, post |-> 0]]
    /\ UNCHANGED <<conn_errors, disc>>

\* connect(url) of the api
establish_connection(u) ==
    /\ Established(u, 0)
    /\ UNCHANGED <<is_open, command_id, connection, error_handler,
                   reconnect_callback, post_reconnect_callback,
                   reconnect_retries, reconnect_retry_delay, pending_futures, call, event_vars,
                   dropped>>

\* websockets.connect succeeded: the handle is kept and _on_open run
connect_ok(k) ==
    /\ conn_task[k] = "connecting"
    /\ transport' = [transport EXCEPT ![k] = "open"]
    /\ conn_task' = [conn_task EXCEPT ![k] = "reading"]
    /\ connection' = k
    /\ is_open' = TRUE
    /\ UNCHANGED <<url, command_id, error_handler, reconnect_callback,
                   post_reconnect_callback, reconnect_retries, reconnect_retry_delay,
                   pending_futures, est, conn_errors, disc, call, event_vars,
                   dropped>>

HandledNever(errs, e) == errs
\* what the connect() task does with an exception e before its finally:
\* line 147 gives a WebSocketException to _on_error, any other passes by
Handled(errs, e) ==
    IF e \in {"WebSocketException", "ConnectionClosedError"}
    THEN Append(errs, e) ELSE errs

\* the connect() task k ends, with exception e or ("none") by the end of
\* its loop: (_on_error and) _on_close
TaskEnds(k, e) ==
    /\ conn_task' = [conn_task EXCEPT ![k] = "ended"]
    /\ conn_errors' = [conn_errors EXCEPT ![k] = Handled(conn_errors[k], e)]
    /\ is_open' = FALSE

\* websockets.connect raised a WebSocketException (a failed handshake)
connect_fail(k) ==
    /\ conn_task[k] = "connecting"
    /\ transport' = [transport EXCEPT ![k] = "failed"]
    /\ TaskEnds(k, "WebSocketException")
    /\ UNCHANGED <<url, command_id, connection, error_handler,
                   reconnect_callback, post_reconnect_callback,
                   reconnect_retries, reconnect_retry_delay, pending_futures, est, disc, call,
                   event_vars, dropped>>

\* websockets.connect raised another exception (OSError: no server there)
connect_refused(k) ==
    /\ conn_task[k] = "connecting"
    /\ transport' = [transport EXCEPT ![k] = "failed"]
    /\ TaskEnds(k, "OSError")
    /\ UNCHANGED <<url, command_id, connection, error_handler,
                   reconnect_callback, post_reconnect_callback,
                   reconnect_retries, reconnect_retry_delay, pending_futures, est, disc, call,
                   event_vars, dropped>>

\* the peer closes an open websocket with a normal close code
transport_close(k) ==
    /\ transport[k] = "open"
    /\ transport' = [transport EXCEPT ![k] = "closed"]
    /\ UNCHANGED <<session, pending_futures, conn_task, est, conn_errors,
                   disc, call, event_vars, dropped>>

\* an open websocket breaks: the network fails, the peer closes it with an
\* error code
transport_error(k) ==
    /\ transport[k] = "open"
    /\ transport' = [transport EXCEPT ![k] = "error"]
    /\ UNCHANGED <<session, pending_futures, conn_task, est, conn_errors,
                   disc, call, event_vars, dropped>>

\* "async for message in conn" on a websocket no longer open: after a
\* normal closure the iteration just ends, after an error it raises
\* ConnectionClosedError; then _on_close
read_loop_end(k) ==
    /\ conn_task[k] = "reading"
    /\ transport[k] \in {"closed", "error"}
    /\ TaskEnds(k, IF transport[k] = "error" THEN "ConnectionClosedError" ELSE "none")
    /\ UNCHANGED <<url, command_id, connection, error_handler,
                   reconnect_callback, post_reconnect_callback,
                   reconnect_retries, reconnect_retry_delay, pending_futures, transport, est, disc,
                   call, event_vars, dropped>>

NotClosed(k) == transport
\* connection.close() on websocket k
Closed(k) ==
    [transport EXCEPT ![k] = IF transport[k] = "open" THEN "closed" ELSE transport[k]]

\* disconnect() of the api, lines 159-161: with a handle its close is
\* awaited, without one the call returns at once
close_connection ==
    /\ disc.pc # "closing"
    /\ IF connection # 0
       THEN /\ transport' = Closed(connection)
            /\ disc' = [pc |-> "closing", conn |-> connection, closes |-> 1,
                        errors |-> 0]
       ELSE /\ UNCHANGED transport
            /\ disc' = [pc |-> "returned", conn |-> 0, closes |-> 0,
                        errors |-> 0]
    /\ UNCHANGED <<session, pending_futures, conn_task, est, conn_errors,
                   call, event_vars, dropped>>

\* line 162: the close is done, the flag is put down and the call returns
close_connection_return ==
    /\ disc.pc = "closing"
    /\ is_open' = FALSE
    /\ disc' = [disc EXCEPT !.pc = "returned"]
    /\ UNCHANGED <<url, command_id, connection, error_handler,
                   reconnect_callback, post_reconnect_callback,
                   reconnect_retries, reconnect_retry_delay, pending_futures, transport, conn_task,
                   est, conn_errors, call, event_vars, dropped>>

(* ----------------------------- send_message --------------------------- *)
NextCommandIdStale(c) == c
\* command_id += 1 under the lock
NextCommandId(c) == c + 1

\* lines 192-194: the identifier is taken; len is the size of the envelope
send_message_alloc(p, len) ==
    /\ call[p].pc = "idle"
    /\ command_id' = NextCommandId(command_id)
    /\ call' = [call EXCEPT ![p] =
           [call[p] EXCEPT !.pc = "check", !.id = NextCommandId(command_id),
                           !.len = len]]
    /\ UNCHANGED <<url, is_open, connection, error_handler,
                   reconnect_callback, post_reconnect_callback,
                   reconnect_retries, reconnect_retry_delay, pending_futures, conn_vars, event_vars,
                   dropped>>

NeedsDelayAlways(retry) == TRUE
\* line 179: the delay is awaited before every reconnect but the first
NeedsDelay(retry) == retry > 0

\* _send_message(data, retries, retry): one write and what follows it up to
\* the next await
SendAttempt(c) ==
    IF connection = 0
    THEN Raised(c, <<"no_connection", c.retry>>)
    ELSE IF transport[connection] = "open"
    THEN [c EXCEPT !.pc = "wait", !.trace = Log(c, <<"w_ok", c.retry>>),
                   !.wrote = @ \cup {c.data}]
    ELSE LET w == [c EXCEPT !.trace = Log(c, <<"w_closed", c.retry>>),
                            !.wrote = @ \cup {c.data}]
         IN IF reconnect_callback # "None" /\ w.retry < w.retries
            THEN [w EXCEPT !.pc = IF NeedsDelay(w.retry) THEN "sleep" ELSE "reconnect"]
            ELSE LET n == IF w.retry < w.retries
                          THEN [w EXCEPT !.trace = Log(w, <<"no_callback", w.retry>>)]
                          ELSE w
                 IN IF HandlerRaises
                    THEN Raised(n, <<"err_aborted", n.retry>>)
                    ELSE [n EXCEPT !.pc = "wait",
                                   !.trace = Log(n, <<"err_aborted", n.retry>>)]

OversizeOffByOne(len) == len > MAX_PAYLOAD_SIZE + 1
\* line 205: len_data > MAX_PAYLOAD_SIZE
Oversize(len) == len > MAX_PAYLOAD_SIZE

RegisteredNever(pf, id, p) == pf
\* pending_futures[command_id] = future
Registered(pf, id, p) == Put(pf, id, p)

\* lines 196-217: the size check, the registration and the first write
send_message_begin(p) ==
    /\ call[p].pc = "check"
    /\ IF Oversize(call[p].len)
       THEN /\ call' = [call EXCEPT ![p] =
                   IF HandlerRaises
                   THEN Raised(call[p], <<"err_oversize", 0>>)
                   ELSE Returned([call[p] EXCEPT !.trace =
                                      Log(call[p], <<"err_oversize", 0>>)],
                                 NoResponse)]
            /\ UNCHANGED pending_futures
       ELSE /\ pending_futures' = Registered(pending_futures, call[p].id, p)
            /\ call' = [call EXCEPT ![p] =
                   SendAttempt([call[p] EXCEPT
                                   !.pc = "send", !.fut = "pending",
                                   !.data = call[p].id,
                                   !.retries = reconnect_retries,
                                   !.trace = Log(call[p], <<"reg", 0>>)])]
    /\ UNCHANGED <<session, conn_vars, event_vars, dropped>>

\* line 180: the retry delay has passed
send_message_sleep(p) ==
    /\ call[p].pc = "sleep"
    /\ call' = [call EXCEPT ![p] =
           [call[p] EXCEPT !.pc = "reconnect",
                           !.trace = Log(call[p], <<"sleep", call[p].retry>>)]]
    /\ UNCHANGED <<session, pending_futures, conn_vars, event_vars, dropped>>

\* line 181: the reconnect callback is called with the retry number; the
\* default one re-runs establish_connection on the remembered url
send_message_reconnect(p) ==
    /\ call[p].pc = "reconnect"
    /\ IF reconnect_callback = "None"
       THEN /\ call' = [call EXCEPT ![p] =
                   Raised(call[p], <<"type_error", call[p].retry>>)]
            /\ UNCHANGED <<url, conn_vars>>
       ELSE IF reconnect_callback = "default" /\ url # "None"
       THEN /\ Established(url, p)
            /\ call' = [call EXCEPT ![p] =
                   [call[p] EXCEPT !.pc = "grace",
                                   !.trace = Log(call[p], <<"cb", call[p].retry>>)]]
       ELSE /\ call' = [call EXCEPT ![p] =
                   [call[p] EXCEPT !.pc = "send", !.retry = @ + 1,
                                   !.trace = Log(call[p], <<"cb", call[p].retry>>)]]
            /\ UNCHANGED <<url, conn_vars>>
    /\ UNCHANGED <<is_open, command_id, connection, error_handler,
                   reconnect_callback, post_reconnect_callback,
                   reconnect_retries, reconnect_retry_delay, pending_futures, event_vars, dropped>>

\* lines 153-155: the grace period is over; with the open flag up the
\* post-reconnect callback is called (a call of None raises TypeError), and
\* the caller goes on
establish_finish(k) ==
    /\ est[k].pc = "grace"
    /\ LET fails == is_open /\ post_reconnect_callback = "None"
           p == est[k].owner
       IN /\ est' = [est EXCEPT ![k].pc = IF fails THEN "raised" ELSE "done",
                                ![k].post = IF is_open /\ ~fails THEN 1 ELSE 0]
          /\ IF p = 0
             THEN UNCHANGED call
             ELSE call' = [call EXCEPT ![p] =
                      IF fails
                      THEN Raised(call[p], <<"type_error", call[p].retry>>)
                      ELSE [call[p] EXCEPT !.pc = "send", !.retry = @ + 1]]
    /\ UNCHANGED <<session, pending_futures, transport, conn_task,
                   conn_errors, disc, event_vars, dropped>>

RetryDataFresh(c) == c.data + 1
\* line 182: the retry is given the data of the failed attempt
RetryData(c) == c.data

\* line 182: the write is tried again
send_message_resend(p) ==
    /\ call[p].pc = "send"
    /\ call' = [call EXCEPT ![p] =
           SendAttempt([call[p] EXCEPT !.data = RetryData(call[p])])]
    /\ UNCHANGED <<session, pending_futures, conn_vars, event_vars, dropped>>

\* lines 219-229: wait_for(future) returns the future's result
send_message_return(p) ==
    /\ call[p].pc = "wait"
    /\ call[p].fut = "done"
    /\ call' = [call EXCEPT ![p] = Returned(call[p], call[p].fut_result)]
    /\ UNCHANGED <<session, pending_futures, conn_vars, event_vars, dropped>>

WaitsForever(c) == FALSE
\* lines 220-222: wait_for(future, timeout=SERVER_RESPONSE_TIMEOUT) gives
\* up once the time has passed with the future not done
TimesUp(c) == c.fut = "pending"

\* lines 223-229: wait_for gives up: it cancels the future, the error
\* handler is told and the call returns None
send_message_timeout(p) ==
    /\ call[p].pc = "wait"
    /\ TimesUp(call[p])
    /\ call' = [call EXCEPT ![p] =
           LET c == [call[p] EXCEPT !.fut = "cancelled"]
           IN IF HandlerRaises
              THEN Raised(c, <<"err_timeout", 0>>)
              ELSE Returned([c EXCEPT !.trace = Log(c, <<"err_timeout", 0>>)],
                            NoResponse)]
    /\ UNCHANGED <<session, pending_futures, conn_vars, event_vars, dropped>>

(* ------------------------ _on_message, events ------------------------- *)
PopKeyOldest(pf, id) ==
    IF DOMAIN pf = {} THEN id ELSE CHOOSE k \in DOMAIN pf : \A j \in DOMAIN pf : k <= j
\* the key _on_message pops: the id of the response
PopKey(pf, id) == id

FutureSettableAlways(c) == TRUE
\* line 85: future and not future.done()
FutureSettable(c) == c.fut = "pending"

ReadLoopEndsOnMiss(k, hit) == IF hit THEN conn_task ELSE [conn_task EXCEPT ![k] = "ended"]
\* lines 144-145: after _on_message returns the loop takes the next message
ReadLoopAfter(k, hit) == conn_task

IsEventBySubscription(m) == m.id \in DOMAIN event_subscriptions_dict
\* line 79: response.get(common.EVENT)
IsEvent(m) == m.event

ReadLoopAwaitsCallback(k) == [conn_task EXCEPT ![k] = "awaiting"]
\* line 80: create_task returns at once, _on_message returns and the loop
\* of connect() task k takes the next message
AfterCreateTask(k) == conn_task

\* _on_message(m) in the read loop of connect() task k
on_message(k, m) ==
    /\ conn_task[k] = "reading"
    /\ transport[k] = "open"
    /\ IF IsEvent(m)
       THEN /\ Len(arrived) < MaxEvents
            /\ emit_tasks' = Append(emit_tasks, [id |-> m.id, payload |-> m.payload])
            /\ arrived' = Append(arrived, [id |-> m.id, payload |-> m.payload])
            /\ conn_task' = AfterCreateTask(k)
            /\ UNCHANGED <<pending_futures, call, dropped>>
       ELSE LET key == PopKey(pending_futures, m.id)
                hit == key \in DOMAIN pending_futures
            IN /\ pending_futures' = Remove(pending_futures, key)
               /\ dropped' = (dropped \/ ~hit)
               /\ conn_task' = ReadLoopAfter(k, hit)
               /\ IF hit /\ FutureSettable(call[pending_futures[key]])
                  THEN call' = [call EXCEPT ![pending_futures[key]] =
                                   [call[pending_futures[key]] EXCEPT
                                       !.fut = "done", !.fut_result = m]]
                  ELSE UNCHANGED call
               /\ UNCHANGED <<emit_tasks, arrived>>
    /\ UNCHANGED <<session, transport, est, conn_errors, disc,
                   event_subscriptions_dict, invoked, callbacks, drop_result,
                   valid_result, constr, constr_result>>

\* ScAddr(addr) of models/sc_addr.py
ScAddr(addr) == [value |-> addr]
\* [ScAddr(addr) for addr in elems]
Addrs(elems) == [i \in 1 .. Len(elems) |-> ScAddr(elems[i])]

NewestTask(q) == Len(q)
\* the event loop starts the tasks in the order of their creation
NextTask(q) == 1

LookUpAny(id) ==
    IF id \in DOMAIN event_subscriptions_dict THEN event_subscriptions_dict[id]
    ELSE IF DOMAIN event_subscriptions_dict # {}
    THEN event_subscriptions_dict[CHOOSE k \in DOMAIN event_subscriptions_dict : TRUE]
    ELSE "None"
\* lines 90-91: event_subscriptions_dict.get(event_id) when the task runs,
\* and the callback of what it finds; None for an id that is not there
LookUp(id) ==
    IF id \in DOMAIN event_subscriptions_dict THEN event_subscriptions_dict[id]
    ELSE "None"

\* _emit_callback(event_id, elems), run as a task of its own
emit_callback ==
    /\ emit_tasks # <<>>
    /\ LET n == NextTask(emit_tasks)
           t == emit_tasks[n]
       IN /\ emit_tasks' = SubSeq(emit_tasks, 1, n - 1)
                               \o SubSeq(emit_tasks, n + 1, Len(emit_tasks))
          /\ IF LookUp(t.id) # "None"
             THEN /\ invoked' = Append(invoked,
                      [id |-> t.id, callback |-> LookUp(t.id),
                       args |-> Addrs(t.payload)])
                  /\ callbacks' = Append(callbacks, "running")
             ELSE UNCHANGED <<invoked, callbacks>>
    /\ UNCHANGED <<session, pending_futures, conn_vars, call,
                   event_subscriptions_dict, arrived, drop_result,
                   valid_result, constr, constr_result, dropped>>

\* line 92: the coroutine of invocation i, awaited by its _emit_callback
\* task, returns or raises; one that never completes takes no such step
callback_end(i, how) ==
    /\ i \in 1 .. Len(callbacks)
    /\ callbacks[i] = "running"
    /\ callbacks' = [callbacks EXCEPT ![i] = how]
    /\ UNCHANGED <<session, pending_futures, conn_vars, call,
                   event_subscriptions_dict, emit_tasks, arrived, invoked,
                   drop_result, valid_result, constr, constr_result, dropped>>

(* ----------------------- subscription registry ------------------------ *)
\* set_event_subscription(ScEventSubscription(id, callback=cb))
set_event_subscription(id, cb) ==
    /\ event_subscriptions_dict' = Put(event_subscriptions_dict, id, cb)
    /\ UNCHANGED <<session, pending_futures, conn_vars, call, emit_tasks,
                   arrived, invoked, callbacks, drop_result, valid_result,
                   constr, constr_result, dropped>>

\* drop_event_subscription(id): del of a missing key raises KeyError
drop_event_subscription(id) ==
    /\ IF id \in DOMAIN event_subscriptions_dict
       THEN /\ event_subscriptions_dict' = Remove(event_subscriptions_dict, id)
            /\ drop_result' = "ok"
       ELSE /\ UNCHANGED event_subscriptions_dict
            /\ drop_result' = "KeyError"
    /\ UNCHANGED <<session, pending_futures, conn_vars, call, emit_tasks,
                   arrived, invoked, callbacks, valid_result, constr,
                   constr_result, dropped>>

\* the value None where a subscription may stand
NoSubscription == [id |-> -1, callback |-> "None"]

\* dict.get(event_subscription_id): the stored ScEventSubscription or None
get_event_subscription(id) ==
    IF id \in DOMAIN event_subscriptions_dict
    THEN [id |-> id, callback |-> event_subscriptions_dict[id]]
    ELSE NoSubscription

BoolOfCallback(sub) == sub.callback # "None"
\* bool(x) of an ScEventSubscription or None: an instance of a dataclass
\* without __bool__ and __len__ is true, None is false
BoolOf(sub) == sub # NoSubscription

\* client/_api.py, is_event_subscription_valid(s)
is_event_subscription_valid(s) ==
    /\ valid_result' =
           IF s.type # "ScEventSubscription"
           THEN [arg |-> s, out |-> "InvalidTypeError", lookups |-> 0]
           ELSE [arg |-> s,
                 out |-> IF BoolOf(get_event_subscription(s.value))
                         THEN "True" ELSE "False",
                 lookups |-> 1]
    /\ UNCHANGED <<session, pending_futures, conn_vars, call,
                   event_subscriptions_dict, emit_tasks, arrived, invoked,
                   callbacks, drop_result, constr, constr_result, dropped>>

(* ---------------------------- ScConstruction -------------------------- *)
\* an ScType by what its is_node(), is_connector(), is_link() answer
ScTypes == { [node |-> TRUE, connector |-> FALSE, link |-> FALSE],
             [node |-> FALSE, connector |-> TRUE, link |-> FALSE],
             [node |-> TRUE, connector |-> FALSE, link |-> TRUE],
             [node |-> FALSE, connector |-> FALSE, link |-> TRUE],
             [node |-> FALSE, connector |-> FALSE, link |-> FALSE] }
is_node(sc_type) == sc_type.node
is_connector(sc_type) == sc_type.connector
is_link(sc_type) == sc_type.link

\* the alias argument: "" stands for None (both are skipped by `if alias`)
Aliases == {"", "n1", "n2"}
\* the source and target of a connector
Refs == {"n1", "n2"}
\* the ScLinkContent values
Contents == {[data |-> "text", content_type |-> "STRING"]}

\* ScConstructionCommand(el_type, data)
ScConstructionCommand(el_type, source, target, content, type) ==
    [el_type |-> el_type, source |-> source, target |-> target,
     content |-> content, type |-> type]

\* lines 22-24: the alias names the index of the command, which is added
\* at the end
WithCommand(c, cmd, alias) ==
    [commands |-> Append(c.commands, cmd),
     aliases |-> IF alias # "" THEN Put(c.aliases, alias, Len(c.commands))
                 ELSE c.aliases]

\* what no generate_* call touches
NoSessionChange ==
    UNCHANGED <<session, pending_futures, conn_vars, call,
                event_subscriptions_dict, emit_tasks, arrived, invoked,
                callbacks, drop_result, valid_result, dropped>>

generate_node_unchecked(sc_type, alias) ==
    /\ Len(constr.commands) < MaxCommands
    /\ constr' = WithCommand(constr,
                     ScConstructionCommand(sc_type, "None", "None", "None", "None"),
                     alias)
    /\ constr_result' = [op |-> "generate_node",
                         out |-> IF is_node(sc_type) THEN "None" ELSE "InvalidTypeError"]
    /\ NoSessionChange
\* ScConstruction.generate_node(sc_type, alias)
generate_node(sc_type, alias) ==
    /\ Len(constr.commands) < MaxCommands
    /\ IF ~is_node(sc_type)
       THEN /\ constr_result' = [op |-> "generate_node", out |-> "InvalidTypeError"]
            /\ UNCHANGED constr
       ELSE /\ constr' = WithCommand(constr,
                     ScConstructionCommand(sc_type, "None", "None", "None", "None"),
                     alias)
            /\ constr_result' = [op |-> "generate_node", out |-> "None"]
    /\ NoSessionChange

\* ScConstruction.generate_connector(sc_type, source, target, alias)
generate_connector(sc_type, source, target, alias) ==
    /\ Len(constr.commands) < MaxCommands
    /\ IF ~is_connector(sc_type)
       THEN /\ constr_result' = [op |-> "generate_connector", out |-> "InvalidTypeError"]
            /\ UNCHANGED constr
       ELSE /\ constr' = WithCommand(constr,
                     ScConstructionCommand(sc_type, source, target, "None", "None"),
                     alias)
            /\ constr_result' = [op |-> "generate_connector", out |-> "None"]
    /\ NoSessionChange

\* ScConstruction.generate_link(sc_type, content, alias)
generate_link(sc_type, content, alias) ==
    /\ Len(constr.commands) < MaxCommands
    /\ IF ~is_link(sc_type)
       THEN /\ constr_result' = [op |-> "generate_link", out |-> "InvalidTypeError"]
            /\ UNCHANGED constr
       ELSE /\ constr' = WithCommand(constr,
                     ScConstructionCommand(sc_type, "None", "None",
                                           content.data, content.content_type),
                     alias)
            /\ constr_result' = [op |-> "generate_link", out |-> "None"]
    /\ NoSessionChange

(* ------------------------------ handlers ------------------------------ *)
set_error_handler(h) ==
    /\ error_handler' = h
    /\ UNCHANGED <<url, is_open, command_id, connection, reconnect_callback,
                   post_reconnect_callback, reconnect_retries, reconnect_retry_delay,
                   pending_futures, conn_vars, call, event_vars, dropped>>

\* set_reconnect_handler(cb, post, retries, delay); the delay is stored
\* and has no part in the order of the steps
set_reconnect_handler(cb, post, retries, delay) ==
    /\ reconnect_callback' = cb
    /\ post_reconnect_callback' = post
    /\ reconnect_retries' = retries
    /\ reconnect_retry_delay' = delay
    /\ UNCHANGED <<url, is_open, command_id, connection, error_handler,
                   pending_futures, conn_vars, call, event_vars, dropped>>

\* the keyword arguments of set_reconnect_handler of client/_api.py: the
\* options the caller gives and their values
OptionNames == {"reconnect_handler", "post_reconnect_handler",
                "reconnect_retries", "reconnect_retry_delay"}
Kwargs == [given : SUBSET OptionNames,
           reconnect_handler : {"custom"},
           post_reconnect_handler : {"custom"},
           reconnect_retries : {1},
           reconnect_retry_delay : {0}]
\* reconnect_kwargs.get(key, default)
Get(kw, key, default) == IF key \in kw.given THEN kw[key] ELSE default

\* client/_api.py, set_reconnect_handler(**reconnect_kwargs): the
\* post-reconnect handler is taken with get(key), whose default is None
api_set_reconnect_handler(kw) ==
    set_reconnect_handler(
        Get(kw, "reconnect_handler", "default"),
        Get(kw, "post_reconnect_handler", "None"),
        Get(kw, "reconnect_retries", SERVER_RECONNECT_RETRIES),
        Get(kw, "reconnect_retry_delay", SERVER_RECONNECT_RETRY_DELAY))

(* --------------------------- specifications --------------------------- *)
ResponseMessages == {m \in Messages : ~m.event /\ m.payload = <<1, 2, 3>>}

Next ==
    \/ establish_connection("ws://a")
    \/ \E k \in Conns : connect_ok(k)
    \/ \E k \in Conns : connect_fail(k)
    \/ \E k \in Conns : transport_close(k)
    \/ \E k \in Conns : read_loop_end(k)
    \/ \E k \in Conns : establish_finish(k)
    \/ \E h \in {"default", "custom"} : set_error_handler(h)
    \/ \E p \in Callers, len \in Lens : send_message_alloc(p, len)
    \/ \E p \in Callers : send_message_begin(p)
    \/ \E p \in Callers : send_message_sleep(p)
    \/ \E p \in Callers : send_message_reconnect(p)
    \/ \E p \in Callers : send_message_resend(p)
    \/ \E p \in Callers : send_message_return(p)
    \/ \E p \in Callers : send_message_timeout(p)
    \/ \E k \in Conns, m \in ResponseMessages : on_message(k, m)

Spec == Init /\ [][Next]_vars

\* the retry loop of one send under every reconnect configuration
NextRetry ==
    \/ establish_connection("ws://a")
    \/ \E k \in Conns : connect_ok(k)
    \/ \E k \in Conns : connect_fail(k)
    \/ \E k \in Conns : transport_close(k)
    \/ \E k \in Conns : read_loop_end(k)
    \/ \E k \in Conns : establish_finish(k)
    \/ \E h \in {"default", "custom"} : set_error_handler(h)
    \/ \E cb \in {"default", "custom", "None"}, post \in {"custom", "None"},
          r \in 0 .. MaxRetries : set_reconnect_handler(cb, post, r, SERVER_RECONNECT_RETRY_DELAY)
    \/ send_message_alloc(1, MAX_PAYLOAD_SIZE)
    \/ send_message_begin(1)
    \/ send_message_sleep(1)
    \/ send_message_reconnect(1)
    \/ send_message_resend(1)
    \/ send_message_timeout(1)

SpecRetry == Init /\ [][NextRetry]_vars

\* the events and the subscription registry
EventMessages == {m \in Messages : m.event /\ m.id \in SubIds}

NextEvents ==
    \/ establish_connection("ws://a")
    \/ \E k \in Conns : connect_ok(k)
    \/ \E k \in Conns, m \in EventMessages : on_message(k, m)
    \/ emit_callback
    \/ \E id \in SubIds, cb \in Callbacks \cup {"None"} : set_event_subscription(id, cb)
    \/ \E id \in SubIds : drop_event_subscription(id)

SpecEvents == Init /\ [][NextEvents]_vars

\* the connection alone: connect() and disconnect() of the api, the
\* websockets and their read loops
Urls == {"ws://a", "ws://b"}

NextSession ==
    \/ \E u \in Urls : establish_connection(u)
    \/ \E k \in Conns : connect_ok(k)
    \/ \E k \in Conns : connect_fail(k)
    \/ \E k \in Conns : connect_refused(k)
    \/ \E k \in Conns : transport_close(k)
    \/ \E k \in Conns : transport_error(k)
    \/ \E k \in Conns : read_loop_end(k)
    \/ \E k \in Conns : establish_finish(k)
    \/ close_connection
    \/ close_connection_return
    \/ \E h \in {"default", "custom"} : set_error_handler(h)

SpecSession == Init /\ [][NextSession]_vars

\* the reconnect options of the api and the connects that follow
NextApi ==
    \/ \E kw \in Kwargs : api_set_reconnect_handler(kw)
    \/ Unused = Conns /\ establish_connection("ws://a")
    \/ \E k \in Conns : connect_ok(k)
    \/ \E k \in Conns : connect_fail(k)
    \/ \E k \in Conns : transport_close(k)
    \/ \E k \in Conns : read_loop_end(k)
    \/ \E k \in Conns : establish_finish(k)
    \/ send_message_alloc(1, MAX_PAYLOAD_SIZE)
    \/ send_message_begin(1)
    \/ send_message_sleep(1)
    \/ send_message_reconnect(1)
    \/ send_message_resend(1)
    \/ send_message_timeout(1)

SpecApi == Init /\ [][NextApi]_vars

\* the subscription registry and its validity check
NextRegistry ==
    \/ \E id \in SubIds, cb \in Callbacks \cup {"None"} : set_event_subscription(id, cb)
    \/ \E id \in SubIds : drop_event_subscription(id)
    \/ \E s \in ValidArgs : is_event_subscription_valid(s)

SpecRegistry == Init /\ [][NextRegistry]_vars

\* the building of one construction
NextConstruction ==
    \/ \E t \in ScTypes, a \in Aliases : generate_node(t, a)
    \/ \E t \in ScTypes, src \in Refs, tgt \in Refs, a \in Aliases :
          generate_connector(t, src, tgt, a)
    \/ \E t \in ScTypes, c \in Contents, a \in Aliases : generate_link(t, c, a)

SpecConstruction == Init /\ [][NextConstruction]_vars

\* one send on a session that is connected once, then closed, broken or
\* disconnected at any time, under fair scheduling.  The reconnect policy
\* is set before the send, and is one whose reconnections the websockets
\* of the model suffice for
EnoughConns == reconnect_callback # "default" \/ reconnect_retries < MaxConn

\* the steps of send_message call p, the end of the grace period of the
\* establish_connection its reconnect callback runs included
CallStep(p) ==
    \/ send_message_begin(p)
    \/ send_message_sleep(p)
    \/ send_message_reconnect(p)
    \/ \E k \in Conns : est[k].owner = p /\ establish_finish(k)
    \/ send_message_resend(p)
    \/ send_message_return(p)
    \/ send_message_timeout(p)

NextLive ==
    \/ Unused = Conns /\ establish_connection("ws://a")
    \/ \E k \in Conns : connect_ok(k)
    \/ \E k \in Conns : connect_fail(k)
    \/ \E k \in Conns : transport_close(k)
    \/ \E k \in Conns : transport_error(k)
    \/ \E k \in Conns : read_loop_end(k)
    \/ \E k \in Conns : est[k].owner = 0 /\ establish_finish(k)
    \/ close_connection
    \/ close_connection_return
    \/ \E h \in {"default", "custom"} : set_error_handler(h)
    \/ \E cb \in {"default", "custom", "None"}, r \in 0 .. MaxRetries :
          call[1].pc = "idle" /\ set_reconnect_handler(cb, "custom", r, SERVER_RECONNECT_RETRY_DELAY)
    \/ EnoughConns /\ send_message_alloc(1, MAX_PAYLOAD_SIZE)
    \/ CallStep(1)
    \/ \E k \in Conns, m \in ResponseMessages : on_message(k, m)

\* the event loop runs every task that can run: a call takes its next
\* step, its timers (the retry delay, the grace period, the response
\* timeout) fire
SpecLive == Init /\ [][NextLive]_vars /\ WF_vars(CallStep(1))

\* requests and subscriptions whose identifiers are the same numbers: the
\* server sends responses and events with them in any order
MixMessages == {m \in Messages : m.payload = <<1, 2, 3>> /\ m.id \in SubIds}

NextMix ==
    \/ Unused = Conns /\ establish_connection("ws://a")
    \/ \E k \in Conns : connect_ok(k)
    \/ \E id \in SubIds, cb \in Callbacks : set_event_subscription(id, cb)
    \/ \E p \in Callers : send_message_alloc(p, MAX_PAYLOAD_SIZE)
    \/ \E p \in Callers : send_message_begin(p)
    \/ \E p \in Callers : send_message_return(p)
    \/ \E p \in Callers : send_message_timeout(p)
    \/ \E k \in Conns, m \in MixMessages : on_message(k, m)
    \/ emit_callback

SpecMix == Init /\ [][NextMix]_vars

\* one request whose writes fail and then succeed: the reconnect policy is
\* set before the send, the websockets open and close at any time
NextRecover ==
    \/ establish_connection("ws://a")
    \/ \E k \in Conns : connect_ok(k)
    \/ \E k \in Conns : transport_close(k)
    \/ \E k \in Conns : read_loop_end(k)
    \/ \E k \in Conns : establish_finish(k)
    \/ \E cb \in {"default", "custom"}, r \in 1 .. MaxRetries :
           call[1].pc = "idle" /\ set_reconnect_handler(cb, "custom", r, SERVER_RECONNECT_RETRY_DELAY)
    \/ set_error_handler("custom")
    \/ send_message_alloc(1, MAX_PAYLOAD_SIZE)
    \/ send_message_begin(1)
    \/ send_message_sleep(1)
    \/ send_message_reconnect(1)
    \/ send_message_resend(1)
    \/ send_message_return(1)
    \/ send_message_timeout(1)
    \/ \E k \in Conns, m \in ResponseMessages : on_message(k, m)

SpecRecover == Init /\ [][NextRecover]_vars

\* one request and the events, whose callbacks return, raise or never
\* complete
Outcomes == {"returned", "raised"}

NextDispatch ==
    \/ Unused = Conns /\ establish_connection("ws://a")
    \/ \E k \in Conns : connect_ok(k)
    \/ \E id \in SubIds, cb \in Callbacks : set_event_subscription(id, cb)
    \/ send_message_alloc(1, MAX_PAYLOAD_SIZE)
    \/ send_message_begin(1)
    \/ send_message_return(1)
    \/ send_message_timeout(1)
    \/ \E k \in Conns, m \in MixMessages : on_message(k, m)
    \/ emit_callback
    \/ \E i \in 1 .. MaxEvents, how \in Outcomes : callback_end(i, how)

SpecDispatch == Init /\ [][NextDispatch]_vars

(* ------------------------------ the claims ---------------------------- *)
\* what the error handler was told, what reached the transport
ErrKinds == {"err_oversize", "err_aborted", "err_timeout"}
WriteKinds == {"w_ok", "w_closed"}
Has(tr, kinds) == \E i \in 1 .. Len(tr) : tr[i][1] \in kinds
Count(tr, kinds) == Cardinality({i \in 1 .. Len(tr) : tr[i][1] \in kinds})
First(tr, kinds) == CHOOSE i \in 1 .. Len(tr) :
    tr[i][1] \in kinds /\ \A j \in 1 .. (i - 1) : tr[j][1] \notin kinds
Allocated(p) == call[p].pc # "idle"
GotResponse(p) == call[p].out = "returned" /\ call[p].result # NoResponse

\* C1: a call that returns a response returns the response that carries the
\* identifier allocated to that call, whatever the order of the responses
C1_NoCrossDelivery ==
    \A p \in Callers :
        /\ GotResponse(p) => call[p].result.id = call[p].id
        /\ call[p].fut = "done" => call[p].fut_result.id = call[p].id

\* two calls in flight, the later one answered first
C1_Witness ==
    \E p, q \in Callers :
        /\ call[p].id < call[q].id
        /\ GotResponse(q)
        /\ call[p].pc = "wait" /\ call[p].fut = "pending"
        /\ Has(call[p].trace, {"w_ok"})

\* C2: every call is given an identifier greater than all given before it,
\* so no two calls share one; oversize calls are given one like the others
C2_IdentifiersIncrease ==
    [][\A p \in Callers :
          (~Allocated(p) /\ Allocated(p)') =>
              /\ call'[p].id = command_id'
              /\ call'[p].id > command_id
              /\ \A q \in Callers : Allocated(q) => call[q].id < call'[p].id
              /\ \A q \in Callers : Allocated(q) => call[q].id <= command_id]_vars

\* two identifiers given, the first to a call rejected as oversize
C2_Witness ==
    \E p, q \in Callers :
        /\ call[p].id = 1 /\ call[q].id = 2
        /\ call[p].trace = <<<<"err_oversize", 0>>>>

\* C3: the slot of a call is in the table before its first write, and stays
\* there for a response to find as long as the future is pending
C3_RegisteredBeforeWrite ==
    \A p \in Callers :
        /\ Has(call[p].trace, WriteKinds \cup {"no_connection"}) =>
              /\ Has(call[p].trace, {"reg"})
              /\ First(call[p].trace, {"reg"})
                     < First(call[p].trace, WriteKinds \cup {"no_connection"})
        /\ (Has(call[p].trace, WriteKinds) /\ call[p].fut = "pending") =>
              /\ call[p].id \in DOMAIN pending_futures
              /\ pending_futures[call[p].id] = p

\* a call that has written and waits, its slot in the table
C3_Witness ==
    \E p \in Callers :
        /\ call[p].pc = "wait" /\ call[p].fut = "pending"
        /\ call[p].trace = <<<<"reg", 0>>, <<"w_ok", 0>>>>
        /\ call[p].id \in DOMAIN pending_futures

\* the step in which call p was found oversize (lines 205-211)
RejectsOversize(p) ==
    /\ call[p].pc = "check"
    /\ call[p].len > MAX_PAYLOAD_SIZE
    /\ call'[p] # call[p]

\* what an oversize call leaves behind: no write, one error told, no slot
OversizeLeaves(c) ==
    /\ c.pc = "done"
    /\ c.trace = <<<<"err_oversize", 0>>>>
    /\ c.fut = "none"
    /\ c.id \notin DOMAIN pending_futures

\* C4 as amended: an oversize call writes nothing, tells the error handler
\* once and leaves no slot; it returns None when the handler returns, and
\* when the handler raises (as the default one does) its error reaches the
\* caller
C4_OversizeRejected ==
    /\ [][\A p \in Callers : RejectsOversize(p) =>
             /\ pending_futures' = pending_futures
             /\ call'[p].id \notin DOMAIN pending_futures'
             /\ call'[p].trace = <<<<"err_oversize", 0>>>>
             /\ call'[p].pc = "done"
             /\ IF error_handler = "default"
                THEN call'[p].out = "raised"
                ELSE call'[p].out = "returned" /\ call'[p].result = NoResponse]_vars
    /\ [](\A p \in Callers :
             (Allocated(p) /\ call[p].pc # "check" /\ call[p].len > MAX_PAYLOAD_SIZE)
                 => OversizeLeaves(call[p]))

\* an oversize call that returned None
C4_Witness ==
    \E p \in Callers :
        /\ call[p].len > MAX_PAYLOAD_SIZE
        /\ OversizeLeaves(call[p])
        /\ call[p].out = "returned" /\ call[p].result = NoResponse

\* C4 as stated: every oversize call returns None
C4_AsStated ==
    \A p \in Callers :
        (Allocated(p) /\ call[p].pc # "check" /\ call[p].len > MAX_PAYLOAD_SIZE)
            => /\ OversizeLeaves(call[p])
               /\ call[p].out = "returned" /\ call[p].result = NoResponse

\* C5: a response whose id has no slot resolves nothing, leaves every slot
\* and every call as they were, tells no error handler, and the read loop
\* goes on
C5_StrayResponseDropped ==
    [][\A k \in Conns, m \in ResponseMessages :
          (m.id \notin DOMAIN pending_futures /\ on_message(k, m)) =>
              /\ pending_futures' = pending_futures
              /\ call' = call
              /\ conn_task'[k] = "reading"
              /\ is_open' = is_open]_vars

\* a response was dropped while a call waited, and the loop still reads
C5_Witness ==
    /\ dropped
    /\ \E p \in Callers : call[p].pc = "wait" /\ call[p].fut = "pending"
    /\ \E k \in Conns : conn_task[k] = "reading" /\ transport[k] = "open"

\* the step in which the wait of call p timed out (lines 223-227)
TimesOut(p) ==
    /\ call[p].pc = "wait"
    /\ call[p].fut = "pending"
    /\ call'[p].fut = "cancelled"

\* C6 as amended: a call whose envelope was written and whose wait times
\* out tells the error handler one timeout error; it returns None when the
\* handler returns, and when the handler raises (as the default one does)
\* its error reaches the caller; a response with its id that arrives later
\* changes no call and does not end the read loop
C6_ResponseTimeout ==
    /\ [][\A p \in Callers :
             (TimesOut(p) /\ Has(call[p].trace, {"w_ok"})) =>
                 /\ Count(call'[p].trace, ErrKinds) = 1
                 /\ Has(call'[p].trace, {"err_timeout"})
                 /\ call'[p].pc = "done"
                 /\ IF error_handler = "default"
                    THEN call'[p].out = "raised"
                    ELSE call'[p].out = "returned" /\ call'[p].result = NoResponse]_vars
    /\ [][\A k \in Conns, m \in ResponseMessages :
             ( /\ m.id \in DOMAIN pending_futures
               /\ call[pending_futures[m.id]].fut = "cancelled"
               /\ on_message(k, m) ) =>
                 /\ call' = call
                 /\ conn_task'[k] = "reading"]_vars

\* a call timed out and returned None, and the late response has come
C6_Witness ==
    \E p \in Callers :
        /\ call[p].fut = "cancelled"
        /\ call[p].trace = <<<<"reg", 0>>, <<"w_ok", 0>>, <<"err_timeout", 0>>>>
        /\ call[p].out = "returned" /\ call[p].result = NoResponse
        /\ call[p].id \notin DOMAIN pending_futures

\* C6 as stated: every written call that times out returns None
C6_AsStated ==
    \A p \in Callers :
        (call[p].fut = "cancelled" /\ Has(call[p].trace, {"w_ok"})) =>
            /\ Count(call[p].trace, ErrKinds) = 1
            /\ call[p].out = "returned" /\ call[p].result = NoResponse

\* the step in which call p goes to write with no transport handle
WritesWithoutTransport(p) ==
    /\ call[p].pc \in {"check", "send"}
    /\ call[p].len <= MAX_PAYLOAD_SIZE
    /\ connection = 0
    /\ call'[p] # call[p]

\* C8: a send with no transport handle tells the configured error handler
\* and does not raise of itself: with a handler that returns, the call
\* does not raise
C8_NoTransportToldToHandler ==
    [][\A p \in Callers : WritesWithoutTransport(p) =>
          /\ Has(call'[p].trace, ErrKinds)
          /\ error_handler = "custom" => call'[p].out # "raised"]_vars

\* the events of a send whose every write fails, for a retry count of R:
\* the registration, then per retry r < R the failed write, the delay
\* (not before the first callback) and the callback called with r, then
\* the last failed write and the error told to the handler
RECURSIVE RetryEvents(_, _)
RetryEvents(r, R) ==
    IF r >= R
    THEN <<<<"w_closed", r>>, <<"err_aborted", r>>>>
    ELSE <<<<"w_closed", r>>>>
             \o (IF r > 0 THEN <<<<"sleep", r>>>> ELSE <<>>)
             \o <<<<"cb", r>>>>
             \o RetryEvents(r + 1, R)
ExhaustedTrace(R) == <<<<"reg", 0>>>> \o RetryEvents(0, R)
IsPrefix(a, b) == Len(a) <= Len(b) /\ SubSeq(b, 1, Len(a)) = a
\* the trace without what may follow the retry loop: the error of a
\* callback that raised, the timeout of the wait
LoopEvents(tr) == SelectSeq(tr, LAMBDA e : e[1] \notin {"type_error", "err_timeout"})

\* C7: while the writes of a send fail with the closed-connection signal
\* and a reconnect callback is set, the callback is called with 0, 1, ...
\* in that order, each call before the next write, the delay only before
\* the second and later calls; the handler is told of the failure only
\* after R calls and R + 1 failed writes
C7_RetryOrder ==
    \A p \in Callers :
        (/\ Has(call[p].trace, {"w_closed"})
         /\ ~Has(call[p].trace, {"w_ok", "no_callback", "no_connection"})) =>
            /\ IsPrefix(LoopEvents(call[p].trace), ExhaustedTrace(call[p].retries))
            /\ Has(call[p].trace, {"err_aborted"}) =>
                  /\ LoopEvents(call[p].trace) = ExhaustedTrace(call[p].retries)
                  /\ Count(call[p].trace, {"cb"}) = call[p].retries
                  /\ Count(call[p].trace, {"w_closed"}) = call[p].retries + 1

\* a send with two retries that ran out of them
C7_Witness ==
    \E p \in Callers :
        /\ call[p].retries = 2
        /\ LoopEvents(call[p].trace) =
               << <<"reg", 0>>, <<"w_closed", 0>>, <<"cb", 0>>,
                  <<"w_closed", 1>>, <<"sleep", 1>>, <<"cb", 1>>,
                  <<"w_closed", 2>>, <<"err_aborted", 2>> >>

\* the raw addresses of an invocation
Raw(args) == [i \in 1 .. Len(args) |-> args[i].value]
Envelope(inv) == [id |-> inv.id, payload |-> Raw(inv.args)]
RECURSIVE IsSubsequence(_, _)
IsSubsequence(a, b) ==
    IF a = <<>> THEN TRUE
    ELSE IF b = <<>> THEN FALSE
    ELSE IF Head(a) = Head(b) THEN IsSubsequence(Tail(a), Tail(b))
    ELSE IsSubsequence(a, Tail(b))
HasCallback(id) ==
    id \in DOMAIN event_subscriptions_dict /\ event_subscriptions_dict[id] # "None"

\* C9: the dispatch of an event envelope whose id is that of a registered
\* subscription calls that subscription's callback once, and no other,
\* with the three addresses of the envelope; the dispatches run, and the
\* invocations begin, in the order in which the envelopes arrived
C9_EventDispatch ==
    /\ [][Len(emit_tasks') < Len(emit_tasks) =>
             LET t == Head(emit_tasks)
             IN /\ emit_tasks' = Tail(emit_tasks)
                /\ IF HasCallback(t.id)
                   THEN invoked' = Append(invoked,
                            [id |-> t.id,
                             callback |-> event_subscriptions_dict[t.id],
                             args |-> <<[value |-> t.payload[1]],
                                        [value |-> t.payload[2]],
                                        [value |-> t.payload[3]]>>])
                   ELSE invoked' = invoked]_vars
    /\ [][Len(invoked') > Len(invoked) => Len(emit_tasks') < Len(emit_tasks)]_vars
    /\ [](LET done == Len(arrived) - Len(emit_tasks)
          IN /\ done >= 0
             /\ emit_tasks = SubSeq(arrived, done + 1, Len(arrived))
             /\ IsSubsequence([i \in 1 .. Len(invoked) |-> Envelope(invoked[i])],
                              SubSeq(arrived, 1, done)))

\* two events on one identifier, each with its callback called, in the
\* order of arrival, another subscription being registered
C9_Witness ==
    /\ Len(invoked) = 2
    /\ arrived = <<[id |-> 1, payload |-> <<4, 5, 6>>], [id |-> 1, payload |-> <<1, 2, 3>>]>>
    /\ Envelope(invoked[1]) = arrived[1]
    /\ Envelope(invoked[2]) = arrived[2]
    /\ invoked[1].callback = "cbA" /\ invoked[2].callback = "cbA"
    /\ HasCallback(2) /\ event_subscriptions_dict[2] = "cbB"

\* C10: to unregister an identifier that is not in the registry raises no
\* error and leaves the registry as it was
C10_DropAbsentIsNoOp ==
    [][\A id \in SubIds :
          (id \notin DOMAIN event_subscriptions_dict /\ drop_event_subscription(id)) =>
              /\ event_subscriptions_dict' = event_subscriptions_dict
              /\ drop_result' # "KeyError"]_vars

\* C11: connect(url) on a session whose open flag is up keeps the url and
\* leaves the transport layer alone: no new connection, no other read
\* loop, the same transport handle
C11_ConnectWhenOpenIsNoOp ==
    [][\A u \in Urls : (is_open /\ establish_connection(u)) =>
          /\ url' = u
          /\ transport' = transport
          /\ conn_task' = conn_task
          /\ connection' = connection]_vars

\* the step in which close_connection asks websocket k to close
AsksClose(k) ==
    /\ disc.pc # "closing"
    /\ connection = k
    /\ disc' # disc

\* C12: disconnect() on a session with a transport handle asks that
\* transport, once, to close, and at its return the open flag is down,
\* whatever the websockets and the flag were when it was called and
\* whatever happened while the close was awaited
C12_DisconnectClosesOnce ==
    /\ [][\A k \in Conns : AsksClose(k) =>
             /\ disc' = [pc |-> "closing", conn |-> k, closes |-> 1, errors |-> 0]
             /\ transport'[k] # "open"
             /\ \A j \in Conns \ {k} : transport'[j] = transport[j]]_vars
    /\ [][(disc.pc = "closing" /\ disc'.pc # "closing") =>
             /\ disc'.pc = "returned"
             /\ disc'.conn = disc.conn /\ disc'.closes = 1
             /\ ~is_open']_vars
    /\ [](disc.pc = "returned" /\ disc.conn # 0 =>
             disc.closes = 1 /\ transport[disc.conn] # "open")

\* disconnect() returned after closing websocket 1, a newer websocket
\* having opened while the close was awaited: the flag is down
C12_Witness ==
    /\ disc.pc = "returned" /\ disc.conn = 1
    /\ transport[1] = "closed"
    /\ connection = 2 /\ transport[2] = "open" /\ conn_task[2] = "reading"
    /\ ~is_open

\* C13: disconnect() on a session without a transport handle returns
\* without raising and tells the configured error handler of it
C13_DisconnectWithoutTransport ==
    (disc.pc = "returned" /\ disc.conn = 0) => disc.errors = 1

\* C14 as amended: when a connect() task ends, for whatever reason, the
\* open flag is down right after; when it ends because the websocket
\* raised a transport error, the error handler is called once, with that
\* error; when it ends because the websocket was closed normally, there is
\* no error and the error handler is not called
C14_ReadLoopEnd ==
    /\ [][\A k \in Conns :
             (conn_task[k] \in {"connecting", "reading"} /\ conn_task'[k] = "ended")
                 => ~is_open']_vars
    /\ [](\A k \in Conns : conn_task[k] = "ended" =>
             /\ transport[k] = "error" => conn_errors[k] = <<"ConnectionClosedError">>
             /\ transport[k] = "closed" => conn_errors[k] = <<>>)
    /\ [](\A k \in Conns : conn_task[k] # "ended" => conn_errors[k] = <<>>)

\* a read loop ended by a transport error, the handler told; another
\* ended by a normal closure, the handler not told
C14_Witness ==
    \E k, j \in Conns :
        /\ conn_task[k] = "ended" /\ transport[k] = "error"
        /\ conn_errors[k] = <<"ConnectionClosedError">>
        /\ conn_task[j] = "ended" /\ transport[j] = "closed"
        /\ conn_errors[j] = <<>>
        /\ ~is_open

\* C14 as stated: a read loop that ended by the closure of the channel or
\* by an error of it has called the error handler
C14_AsStated ==
    \A k \in Conns :
        (conn_task[k] = "ended" /\ transport[k] \in {"closed", "error"})
            => Len(conn_errors[k]) = 1

\* websocket k opened at some time
Opened(k) == transport[k] \in {"open", "closed", "error"}

\* C15: an establish_connection call whose grace period ends calls the
\* post-reconnect callback once if its websocket opened within the grace
\* period, and not at all if its attempt failed or has not opened by then
C15_PostReconnectOnce ==
    [][\A k \in Conns : (est[k].pc = "grace" /\ est'[k].pc # "grace") =>
          est'[k].post = IF Opened(k) THEN 1 ELSE 0]_vars

\* C16: is_event_subscription_valid(s) answers true exactly when s.id is
\* in the registry at that time, whatever callback is stored with it, so
\* true after set_event_subscription and false before it and after
\* drop_event_subscription; an argument that is no ScEventSubscription
\* raises InvalidTypeError and the registry is not looked at
C16_ValidIffRegistered ==
    /\ [][\A s \in ValidArgs : is_event_subscription_valid(s) =>
             /\ valid_result'.arg = s
             /\ event_subscriptions_dict' = event_subscriptions_dict
             /\ IF s.type = "ScEventSubscription"
                THEN valid_result'.out =
                         IF s.value \in DOMAIN event_subscriptions_dict
                         THEN "True" ELSE "False"
                ELSE /\ valid_result'.out = "InvalidTypeError"
                     /\ valid_result'.lookups = 0]_vars
    /\ [][\A id \in SubIds :
             /\ (\E cb \in Callbacks \cup {"None"} : set_event_subscription(id, cb))
                    => id \in DOMAIN event_subscriptions_dict'
             /\ drop_event_subscription(id)
                    => id \notin DOMAIN event_subscriptions_dict'
             /\ (id \in DOMAIN event_subscriptions_dict')
                    # (id \in DOMAIN event_subscriptions_dict)
                    => \/ \E cb \in Callbacks \cup {"None"} : set_event_subscription(id, cb)
                       \/ drop_event_subscription(id)]_vars

\* a subscription stored without a callback is found valid, another was
\* registered and then removed
C16_Witness ==
    /\ valid_result = [arg |-> [type |-> "ScEventSubscription", value |-> 1],
                       out |-> "True", lookups |-> 1]
    /\ 1 \in DOMAIN event_subscriptions_dict
    /\ event_subscriptions_dict[1] = "None"
    /\ drop_result = "ok" /\ 2 \notin DOMAIN event_subscriptions_dict

\* what a rejected generate_* call leaves: the construction as it was and
\* nothing of the session touched
RejectedCleanly ==
    /\ constr_result'.out = "InvalidTypeError"
    /\ constr' = constr
    /\ transport' = transport /\ call' = call
    /\ pending_futures' = pending_futures /\ command_id' = command_id

\* C17: generate_node, generate_connector and generate_link given an
\* element type of the wrong kind raise InvalidTypeError at once, leave the
\* command list and the alias map as they were and write nothing to the
\* transport
C17_TypeMismatchRejected ==
    [][/\ \A t \in ScTypes, a \in Aliases :
             (~is_node(t) /\ generate_node(t, a)) => RejectedCleanly
       /\ \A t \in ScTypes, src \in Refs, tgt \in Refs, a \in Aliases :
             (~is_connector(t) /\ generate_connector(t, src, tgt, a)) => RejectedCleanly
       /\ \A t \in ScTypes, c \in Contents, a \in Aliases :
             (~is_link(t) /\ generate_link(t, c, a)) => RejectedCleanly]_vars

\* a node with an alias was added, then a call with a wrong type rejected
C17_Witness ==
    /\ constr_result = [op |-> "generate_connector", out |-> "InvalidTypeError"]
    /\ Len(constr.commands) = 1
    /\ constr.commands[1].el_type.node
    /\ DOMAIN constr.aliases = {"n1"} /\ constr.aliases["n1"] = 0

\* C18: a send_message call that ends with an absent result, the error
\* handler having returned each time it was called, had the error handler
\* called once for it
C18_OneErrorPerFailedSend ==
    \A p \in Callers :
        (call[p].out = "returned" /\ call[p].result = NoResponse)
            => Count(call[p].trace, ErrKinds) = 1

\* C19: under fair scheduling every send_message call that was begun ends,
\* by a response, by None or by an error, also when its response never
\* comes because the session was disconnected or the websocket closed or
\* broke after the write
C19_NoSendHangs ==
    \A p \in Callers : (call[p].pc # "idle") ~> (call[p].pc = "done")

\* a call wrote its envelope, the session was disconnected, and the call
\* ended by the timeout of its wait
C19_Witness ==
    \E p \in Callers :
        /\ call[p].pc = "done"
        /\ call[p].trace = <<<<"reg", 0>>, <<"w_ok", 0>>, <<"err_timeout", 0>>>>
        /\ disc.pc = "returned" /\ disc.conn # 0
        /\ call[p].id \in DOMAIN pending_futures

\* C20: an inbound envelope with event = true changes no slot of the
\* correlation table and no call, also when its id is that of a request in
\* flight; an inbound envelope without event = true starts no dispatch and
\* calls no callback, also when its id is that of a registered
\* subscription; so a future is only ever resolved by a response and a
\* callback only ever called for an event
C20_NamespacesApart ==
    /\ [][\A k \in Conns, m \in MixMessages : (m.event /\ on_message(k, m)) =>
             /\ pending_futures' = pending_futures
             /\ call' = call]_vars
    /\ [][\A k \in Conns, m \in MixMessages : (~m.event /\ on_message(k, m)) =>
             /\ emit_tasks' = emit_tasks
             /\ invoked' = invoked]_vars
    /\ [](\A p \in Callers : call[p].fut = "done" => ~call[p].fut_result.event)
    /\ [](Len(invoked) + Len(emit_tasks) <= Len(arrived))

\* call 1 still waits after an event with its id was dispatched to the
\* callback of subscription 1; call 2 got its response, whose id is that
\* of subscription 2, and no callback of subscription 2 was called
C20_Witness ==
    /\ call[1].id = 1 /\ call[1].pc = "wait" /\ call[1].fut = "pending"
    /\ 1 \in DOMAIN pending_futures
    /\ \E i \in 1 .. Len(invoked) : invoked[i].id = 1
    /\ call[2].id = 2 /\ GotResponse(2)
    /\ HasCallback(2)
    /\ \A i \in 1 .. Len(invoked) : invoked[i].id # 2
    /\ \A i \in 1 .. Len(emit_tasks) : emit_tasks[i].id # 2

\* a callback invocation that has not returned: it runs still (it may
\* never complete) or it raised
Unfinished(i) == callbacks[i] \in {"running", "raised"}

\* C21: event dispatch never blocks the read loop. The read loop of an open
\* websocket keeps reading whatever the callbacks do; a step in which a
\* callback starts, returns or raises changes neither the open flag nor the
\* loop nor a pending request; with a callback that runs still or raised,
\* a response still resolves its pending request and the dispatch of a
\* later event to a registered callback still begins the invocation
C21_DispatchNeverBlocks ==
    /\ [](\A k \in Conns : transport[k] = "open" => conn_task[k] = "reading")
    /\ [][callbacks' # callbacks
            => /\ is_open' = is_open
               /\ conn_task' = conn_task
               /\ transport' = transport
               /\ pending_futures' = pending_futures
               /\ call' = call]_vars
    /\ [][\A k \in Conns, m \in MixMessages :
            (on_message(k, m) /\ \E i \in 1 .. Len(callbacks) : Unfinished(i))
            => /\ is_open' = is_open
               /\ conn_task'[k] = "reading"
               /\ (~m.event /\ m.id \in DOMAIN pending_futures
                      /\ call[pending_futures[m.id]].fut = "pending")
                  => /\ call'[pending_futures[m.id]].fut = "done"
                     /\ call'[pending_futures[m.id]].fut_result = m
               /\ m.event => emit_tasks' = Append(emit_tasks,
                                  [id |-> m.id, payload |-> m.payload])]_vars
    /\ [][(Len(emit_tasks') < Len(emit_tasks)
             /\ HasCallback(emit_tasks[1].id)
             /\ \E i \in 1 .. Len(callbacks) : Unfinished(i))
            => /\ Len(invoked') = Len(invoked) + 1
               /\ callbacks'[Len(callbacks')] = "running"]_vars

\* the callback of the first event never completed and the callback of the
\* second raised, and the request got its response on the open session
C21_Witness ==
    /\ callbacks = <<"running", "raised">>
    /\ GotResponse(1)
    /\ call[1].result.id = call[1].id
    /\ is_open
    /\ \E k \in Conns : conn_task[k] = "reading" /\ transport[k] = "open"

\* a send whose write failed with the closed-connection signal and then
\* succeeded
Recovered(p) ==
    Has(call[p].trace, {"w_closed"}) /\ Has(call[p].trace, {"w_ok"})
\* what ends a send before a write succeeds
Giveups == ErrKinds \cup {"type_error", "no_connection", "no_callback"}

\* C22: transparent recovery. A send whose write failed k times
\* (1 <= k <= retry count) and then succeeded wrote the envelope with the
\* identifier of the call on every attempt, allocated no identifier after
\* its own, told the error handler nothing up to the successful write, and
\* the response carrying that identifier is the one it returns, with no
\* error handler invocation at all
C22_TransparentRecovery ==
    /\ [](\A p \in Callers : Recovered(p) =>
            LET tr == call[p].trace
                n == First(tr, {"w_ok"})
                k == Count(tr, {"w_closed"})
            IN /\ k \in 1 .. call[p].retries
               /\ tr[n][2] = k
               /\ Count(tr, {"w_ok"}) = 1
               /\ Count(tr, {"cb"}) = k
               /\ call[p].wrote = {call[p].id}
               /\ \A j \in 1 .. n : tr[j][1] \notin Giveups
               /\ call[p].fut = "done" => call[p].fut_result.id = call[p].id
               /\ (call[p].out = "returned" /\ call[p].fut = "done")
                  => /\ call[p].result = call[p].fut_result
                     /\ ~Has(tr, Giveups)
               /\ Has(tr, Giveups) => call[p].fut = "cancelled")
    /\ [][call[1].pc # "idle"
            => command_id' = command_id /\ call'[1].id = call[1].id]_vars

\* two writes failed, the third succeeded and the call returned the
\* response with its identifier
C22_Witness ==
    /\ Count(call[1].trace, {"w_closed"}) = 2
    /\ Has(call[1].trace, {"w_ok"})
    /\ GotResponse(1)
    /\ call[1].result.id = call[1].id
    /\ call[1].wrote = {call[1].id}

\* the default the session offers for an option the caller omits
DefaultOf(key) ==
    IF key = "reconnect_handler" THEN {"default"}
    ELSE IF key = "post_reconnect_handler" THEN {"noop", "custom"}
    ELSE IF key = "reconnect_retries" THEN {SERVER_RECONNECT_RETRIES}
    ELSE {SERVER_RECONNECT_RETRY_DELAY}
\* what the session must hold for an option after set_reconnect_handler(kw)
Expected(kw, key) == IF key \in kw.given THEN {kw[key]} ELSE DefaultOf(key)

\* C23: set_reconnect_handler of the api stores each option it is given and
\* leaves a usable default for each option omitted (the reconnect handler
\* that re-runs connect, a callable post-reconnect handler, the default
\* retry count and delay), and no connect that finds the session open
\* fails in calling the post-reconnect handler
C23_ReconnectOptions ==
    /\ [][\A kw \in Kwargs : api_set_reconnect_handler(kw)
            => /\ reconnect_callback' \in Expected(kw, "reconnect_handler")
               /\ post_reconnect_callback' \in Expected(kw, "post_reconnect_handler")
               /\ reconnect_retries' \in Expected(kw, "reconnect_retries")
               /\ reconnect_retry_delay' \in Expected(kw, "reconnect_retry_delay")]_vars
    /\ [](\A k \in Conns : est[k].pc # "raised")
    /\ [](\A p \in Callers : ~Has(call[p].trace, {"type_error"}))

\* connect() task k ends in this step: its websocket closed or its
\* establishment failed
Ends(k) == conn_task[k] \in {"connecting", "reading"} /\ conn_task'[k] = "ended"

\* C24: the open flag tracks the current transport. While the websocket the
\* session holds is open and its read loop runs, is_connected() is true,
\* and the end of the connect() task of another websocket (an older one,
\* or a later attempt that failed) does not put the flag down
C24_FlagTracksTransport ==
    /\ []((connection # 0 /\ transport[connection] = "open"
              /\ conn_task[connection] = "reading") => is_open)
    /\ [][\A k \in Conns : (Ends(k) /\ k # connection /\ is_open) => is_open']_vars

\* the step in which call p finishes
Finishes(p) == call[p].pc # "done" /\ call'[p].pc = "done"

\* C25 as amended: the correlation table holds only identifiers of calls
\* that registered a slot and whose response has not been received. A call
\* whose future was resolved has no slot; a call that finishes without a
\* response after registering (None after a timeout or after the retries
\* ran out, or an error raised to the caller) leaves its identifier in the
\* table, and only a response with that identifier takes it out
C25_SlotsOfUnanswered ==
    /\ [](\A id \in DOMAIN pending_futures :
            LET c == call[pending_futures[id]]
            IN /\ c.id = id
               /\ Has(c.trace, {"reg"})
               /\ c.fut \in {"pending", "cancelled"})
    /\ [](\A p \in Callers :
            call[p].fut = "done" => call[p].id \notin DOMAIN pending_futures)
    /\ [][\A p \in Callers :
            (Finishes(p) /\ call'[p].fut \in {"pending", "cancelled"})
                => call'[p].id \in DOMAIN pending_futures']_vars
    /\ [][\A id \in DOMAIN pending_futures :
            id \notin DOMAIN pending_futures'
                => \E k \in Conns, m \in ResponseMessages :
                       m.id = id /\ on_message(k, m)]_vars

\* a call that timed out and returned None, its identifier still in the table
C25_Witness ==
    \E p \in Callers :
        /\ call[p].pc = "done"
        /\ call[p].out = "returned" /\ call[p].result = NoResponse
        /\ call[p].fut = "cancelled"
        /\ call[p].id \in DOMAIN pending_futures

\* C25 as stated: the table holds only identifiers of calls that have not
\* finished
C25_AsStated ==
    /\ \A id \in DOMAIN pending_futures : call[pending_futures[id]].pc # "done"
    /\ \A p \in Callers :
           call[p].pc = "done" => call[p].id \notin DOMAIN pending_futures

\* C26: no callback after unregistration. The dispatch of an event whose
\* id is not in the registry when the dispatch runs calls no callback and
\* raises nothing: only the task is gone. Every invocation that begins is
\* of the callback the registry holds for the id at that moment, so an
\* envelope that waits for its dispatch while its subscription is dropped
\* calls nothing
C26_NoCallbackAfterDrop ==
    /\ [][(Len(emit_tasks') < Len(emit_tasks)
             /\ Head(emit_tasks).id \notin DOMAIN event_subscriptions_dict)
            => /\ invoked' = invoked
               /\ callbacks' = callbacks
               /\ emit_tasks' = Tail(emit_tasks)
               /\ UNCHANGED <<session, pending_futures, conn_vars, call,
                              event_subscriptions_dict, arrived, drop_result,
                              dropped>>]_vars
    /\ [][Len(invoked') > Len(invoked)
            => LET inv == invoked'[Len(invoked')]
               IN /\ inv.id \in DOMAIN event_subscriptions_dict
                  /\ inv.callback = event_subscriptions_dict[inv.id]
                  /\ inv.id = Head(emit_tasks).id]_vars

\* two events on identifier 1: the callback was called for the first; the
\* subscription was dropped, and the second was dispatched with the
\* identifier out of the registry: no second invocation
C26_Witness ==
    /\ Len(arrived) = 2 /\ arrived[1].id = 1 /\ arrived[2].id = 1
    /\ arrived[1].payload # arrived[2].payload
    /\ emit_tasks = <<>>
    /\ Len(invoked) = 1 /\ Envelope(invoked[1]) = arrived[1]
    /\ drop_result = "ok"
    /\ event_subscriptions_dict = <<>>

====
